---- MODULE Spec2Model ----
(***************************************************************************)
(* A model of the Display library (src/src/Display.c, src/src/Display.h):  *)
(* the process-wide configuration, the print mutex with its manual-hold    *)
(* flag, and the emission routine __Display, one step per statement that   *)
(* reads or writes shared state or writes to a sink.                       *)
(***************************************************************************)
EXTENDS Integers, Sequences, FiniteSets, TLC

\* ------------------------------------------------------------------ bounds
NumThreads == 2      \* threads of the process that call the library
MaxEmits   == 1      \* emissions one thread alone starts in one behaviour
MaxThreadEmits == 2  \* emissions concurrent threads start in one behaviour
MaxLocks   == 2      \* DisplayLock calls made in one behaviour
MaxArgs    == 1      \* command-line arguments after argv[0]

\* ------------------------------------------------------- program constants
DISABLE  == 0
ENABLE   == 1
STANDARD == 0
WARNING  == 1
ERROR    == 2
CUSTOM   == 3
NoType   == CUSTOM + 1   \* a write that is no emission's (a fatal diagnostic)
FileSize == 32       \* sizeof(file)

NULL   == "NULL"
stdout == "stdout"
stderr == "stderr"
logfd  == "fd"       \* a file the caller opened (demo.c: testOutput.txt)
Sinks  == {stdout, stderr, logfd}

RESET       == "ESC[0m"
BOLD_YELLOW == "ESC[1mESC[33m"
BOLD_RED    == "ESC[1mESC[31m"
GREEN       == "ESC[32m"
Ansi        == {RESET, BOLD_YELLOW, BOLD_RED, GREEN}

NUL == "NUL"         \* the terminating zero byte of a C string

Threads == 1 .. NumThreads
Main    == CHOOSE t \in Threads : t - 1 \notin Threads   \* the thread that runs main()

\* values a caller may pass where ENABLE or DISABLE is expected
FlagInputs == {-1, DISABLE, ENABLE, 2}
\* values a caller may pass as a stream type
TypeInputs == {-1, STANDARD, WARNING, ERROR, CUSTOM}
\* command-line arguments
ArgInputs  == {"-s", "--silent", "-n", "--no-color", "-x", "input.txt",
               "--verbose"}
\* the arguments that begin with "--"
LongArgs   == {"--silent", "--no-color", "--verbose"}
Argvs      == UNION {[1 .. n -> ArgInputs] : n \in 0 .. MaxArgs}

RECURSIVE Rep(_, _)
Rep(n, c) == IF n = 0 THEN <<>> ELSE Append(Rep(n - 1, c), c)
\* paths handed to __InitializeDisplay (the __FILE__ of the caller)
PathInputs == {<<"d">>, <<"s", "/", "d">>, Rep(FileSize - 2, "d"),
               Rep(FileSize - 1, "d"), <<"s", "/">> \o Rep(FileSize, "d")}

VARIABLES
    verbose,            \* int verbose
    colorfulness,       \* int colorfulness
    file,               \* char file[32], cells 1..32 here
    autoNewline,        \* int autoNewline
    showTrace,          \* int showTrace
    streams,            \* FILE *streams[3]
    stdoutToFile,       \* int stdoutToFile
    stderrToFile,       \* int stderrToFile
    isLocked,           \* int isLocked
    consoleLock,        \* pthread_mutex_t consoleLock: 0 free, else the owner
    tty,                \* environment: isatty() of stdout and of stderr
    exited,             \* the process has ended ("no", "exit1", "crash")
    pc,                 \* per thread: position in the call it is running
    type,               \* per thread: __Display's parameter type
    fd,                 \* per thread: __Display's parameter fd
    color,              \* per thread: __Display's parameter color
    old_colorfulness,   \* per thread: __Display's local old_colorfulness
    stream,             \* per thread: __Display's local stream
    acquired,           \* per thread: this emission locked consoleLock at entry
    eid,                \* per thread: number of the emission it is running
    blk,                \* per thread: number of its open DisplayLock block, or 0
    emits,              \* emissions started so far
    locks,              \* DisplayLock calls made so far
    ret,                \* the value the latest completed call returned
    out                 \* every write so far, all sinks, in order

cfgVars  == <<verbose, colorfulness, file, autoNewline, showTrace, streams,
              stdoutToFile, stderrToFile>>
lockVars == <<isLocked, consoleLock, locks, blk>>
thrVars  == <<pc, type, fd, color, old_colorfulness, stream, acquired, eid>>
vars     == <<cfgVars, lockVars, thrVars, tty, exited, emits, ret, out>>

\* ------------------------------------------------------------ C strings
\* The string a char buffer holds: the cells before the first NUL.
RECURSIVE CStrFrom(_, _)
CStrFrom(buf, i) ==
    IF i > Len(buf) \/ buf[i] = NUL THEN <<>>
    ELSE <<buf[i]>> \o CStrFrom(buf, i + 1)
CStr(buf) == CStrFrom(buf, 1)

\* strncpy(dst, src, n): n cells written, src then NUL padding.
Strncpy(dst, src, n) ==
    [i \in 1 .. Len(dst) |->
        IF i > n THEN dst[i] ELSE IF i <= Len(src) THEN src[i] ELSE NUL]

\* snprintf(dst, n, "%s", src): at most n-1 characters, then one NUL.
Snprintf(dst, n, src) ==
    LET k == IF Len(src) < n - 1 THEN Len(src) ELSE n - 1
    IN  [i \in 1 .. Len(dst) |->
            IF i <= k THEN src[i] ELSE IF i = k + 1 THEN NUL ELSE dst[i]]

\* basename(path): what follows the last '/'.
RECURSIVE Basename(_)
Basename(p) ==
    IF \E i \in 1 .. Len(p) : p[i] = "/"
    THEN Basename(Tail(p))
    ELSE p

\* ---------------------------------------------------------------- Init
Init ==
    /\ verbose = ENABLE
    /\ colorfulness = ENABLE
    /\ file = <<"?">> \o Rep(FileSize - 1, NUL)
    /\ autoNewline = ENABLE
    /\ showTrace = ENABLE
    /\ streams = [c \in {STANDARD, WARNING, ERROR} |-> NULL]
    /\ stdoutToFile = 0
    /\ stderrToFile = 0
    /\ isLocked = 0
    /\ consoleLock = 0
    /\ tty \in [{stdout, stderr} -> BOOLEAN]
    /\ exited = "no"
    /\ pc = [t \in Threads |-> "idle"]
    /\ type = [t \in Threads |-> STANDARD]
    /\ fd = [t \in Threads |-> NULL]
    /\ color = [t \in Threads |-> RESET]
    /\ old_colorfulness = [t \in Threads |-> ENABLE]
    /\ stream = [t \in Threads |-> NULL]
    /\ acquired = [t \in Threads |-> FALSE]
    /\ eid = [t \in Threads |-> 0]
    /\ blk = [t \in Threads |-> 0]
    /\ emits = 0
    /\ locks = 0
    /\ ret = 0
    /\ out = <<>>

Idle(t) == exited = "no" /\ pc[t] = "idle"
NoReturn == ret' = ret

\* ------------------------------------------------------- flag accessors
GetVerbose      == verbose
GetColorfulness == colorfulness
GetAutoNewline  == autoNewline
GetShowTrace    == showTrace
GetFilename     == CStr(file)
GetStream(streamType) ==
    IF streamType >= STANDARD /\ streamType <= ERROR
    THEN streams[streamType] ELSE NULL

\* Mutant: any value from DISABLE up passes the test.
ValidFlag_Loose(v) == v >= DISABLE

\* The test the four flag setters make of their argument.
ValidFlag(v) == v = DISABLE \/ v = ENABLE

\* dprint(stderr, msg); exit(1);
Fatal(t, msg) ==
    /\ out' = Append(out, [thr |-> t, eid |-> 0, blk |-> blk[t], type |-> NoType,
                           sink |-> stderr, text |-> <<msg>>])
    /\ exited' = "exit1"
    /\ ret' = ret

\* return r;
Return(r) == out' = out /\ exited' = exited /\ ret' = r

SetVerbose(t, v) ==
    /\ Idle(t)
    /\ IF ValidFlag(v)
       THEN verbose' = v /\ Return(0)
       ELSE verbose' = verbose /\ Fatal(t, "ERROR: Invalid verbosity value.\n")
    /\ UNCHANGED <<colorfulness, file, autoNewline, showTrace, streams,
                   stdoutToFile, stderrToFile, lockVars, thrVars, tty, emits>>

SetColorfulness(t, c) ==
    /\ Idle(t)
    /\ IF ValidFlag(c)
       THEN colorfulness' = c /\ Return(0)
       ELSE colorfulness' = colorfulness
            /\ Fatal(t, "ERROR: Invalid colorfulness value.\n")
    /\ UNCHANGED <<verbose, file, autoNewline, showTrace, streams,
                   stdoutToFile, stderrToFile, lockVars, thrVars, tty, emits>>

SetAutoNewline(t, a) ==
    /\ Idle(t)
    /\ IF ValidFlag(a)
       THEN autoNewline' = a /\ Return(0)
       ELSE autoNewline' = autoNewline
            /\ Fatal(t, "ERROR: Invalid auto newline value.\n")
    /\ UNCHANGED <<verbose, colorfulness, file, showTrace, streams,
                   stdoutToFile, stderrToFile, lockVars, thrVars, tty, emits>>

\* Mutant: the setter stores into the neighbouring flag.
SetShowTrace_WrongFlag(t, s) ==
    /\ Idle(t)
    /\ IF ValidFlag(s)
       THEN autoNewline' = s /\ showTrace' = showTrace /\ Return(0)
       ELSE UNCHANGED <<autoNewline, showTrace>>
            /\ Fatal(t, "ERROR: Invalid show trace value.\n")
    /\ UNCHANGED <<verbose, colorfulness, file, streams,
                   stdoutToFile, stderrToFile, lockVars, thrVars, tty, emits>>

SetShowTrace(t, s) ==
    /\ Idle(t)
    /\ IF ValidFlag(s)
       THEN showTrace' = s /\ Return(0)
       ELSE showTrace' = showTrace
            /\ Fatal(t, "ERROR: Invalid show trace value.\n")
    /\ UNCHANGED <<verbose, colorfulness, file, autoNewline, streams,
                   stdoutToFile, stderrToFile, lockVars, thrVars, tty, emits>>

\* Mutant: strncpy is given the whole size of the buffer.
SetFilename_FullSize(t, newFilename) ==
    /\ Idle(t)
    /\ IF newFilename # NULL
       THEN file' = Strncpy(file, newFilename, FileSize) /\ Return(0)
       ELSE file' = file /\ Return(-1)
    /\ UNCHANGED <<verbose, colorfulness, autoNewline, showTrace, streams,
                   stdoutToFile, stderrToFile, lockVars, thrVars, tty, emits>>

SetFilename(t, newFilename) ==
    /\ Idle(t)
    /\ IF newFilename # NULL
       THEN file' = Strncpy(file, newFilename, FileSize - 1) /\ Return(0)
       ELSE file' = file /\ Return(-1)
    /\ UNCHANGED <<verbose, colorfulness, autoNewline, showTrace, streams,
                   stdoutToFile, stderrToFile, lockVars, thrVars, tty, emits>>

\* Mutant: a bad stream type is reported to the caller, as SetFilename
\* reports a null label, and the process goes on.
SetStream_ReturnsError(t, streamType, newStream) ==
    /\ Idle(t)
    /\ IF streamType >= STANDARD /\ streamType <= ERROR
       THEN streams' = [streams EXCEPT ![streamType] = newStream] /\ Return(0)
       ELSE streams' = streams /\ Return(-1)
    /\ UNCHANGED <<verbose, colorfulness, file, autoNewline, showTrace,
                   stdoutToFile, stderrToFile, lockVars, thrVars, tty, emits>>

SetStream(t, streamType, newStream) ==
    /\ Idle(t)
    /\ IF streamType >= STANDARD /\ streamType <= ERROR
       THEN streams' = [streams EXCEPT ![streamType] = newStream] /\ Return(0)
       ELSE streams' = streams
            /\ Fatal(t, "ERROR: Invalid stream type. See PrintType enum.")
    /\ UNCHANGED <<verbose, colorfulness, file, autoNewline, showTrace,
                   stdoutToFile, stderrToFile, lockVars, thrVars, tty, emits>>

\* ------------------------------------------------- __InitializeDisplay
\* static struct option long_options[]: two entries, and no entry of zeros
\* after them to end the array.
long_options == <<[name |-> "--silent", val |-> "s"],
                  [name |-> "--no-color", val |-> "n"]>>

\* getopt_long(argc, argv, "sn", long_options, ...) on one argument.  A long
\* option is looked up entry by entry until its name is found; a name that
\* is in no entry takes the scan past the end of the array.
GetoptLong(arg) ==
    IF arg \in LongArgs
    THEN IF \E i \in 1 .. Len(long_options) : long_options[i].name = arg
         THEN long_options[CHOOSE i \in 1 .. Len(long_options) :
                              long_options[i].name = arg].val
         ELSE "past_end"
    ELSE IF arg = "-s" THEN "s"
    ELSE IF arg = "-n" THEN "n"
    ELSE IF arg = "-x" THEN "?"
    ELSE "none"

\* The arguments whose lookup reads past the end of long_options.
PastEnd(argv) == {i \in 1 .. Len(argv) : GetoptLong(argv[i]) = "past_end"}

\* The getopt_long loop: each argument in turn, 's' and 'n' act, the rest
\* fall to the default case.
RECURSIVE ParseArgs(_, _, _)
ParseArgs(argv, i, vc) ==
    IF i > Len(argv) THEN vc
    ELSE ParseArgs(argv, i + 1,
            IF GetoptLong(argv[i]) = "s" THEN [vc EXCEPT !.v = DISABLE]
            ELSE IF GetoptLong(argv[i]) = "n" THEN [vc EXCEPT !.c = DISABLE]
            ELSE vc)

\* A read past the end of long_options is undefined: the memory there holds
\* a null name and the option is unknown like any other (stop = 0), or the
\* read ends the process at that argument (stop = its index).
InitializeDisplay(t, filename, argv) ==
    \E stop \in PastEnd(argv) \cup {0} :
        LET seen == IF stop = 0 THEN argv ELSE SubSeq(argv, 1, stop - 1)
            vc   == ParseArgs(seen, 1, [v |-> ENABLE, c |-> ENABLE])
        IN  /\ Idle(t)
            /\ stdoutToFile' = IF ~tty[stdout] THEN 1 ELSE stdoutToFile
            /\ stderrToFile' = IF ~tty[stderr] THEN 1 ELSE stderrToFile
            /\ verbose' = vc.v
            /\ colorfulness' = vc.c
            /\ streams' = [c \in {STANDARD, WARNING, ERROR} |->
                              IF c = STANDARD THEN stdout ELSE stderr]
            /\ IF stop = 0
               THEN /\ file' = Snprintf(file, FileSize - 1, Basename(filename))
                    /\ Return(0)
               ELSE /\ file' = file
                    /\ out' = out /\ exited' = "crash" /\ ret' = ret
            /\ UNCHANGED <<autoNewline, showTrace, lockVars, thrVars, tty, emits>>

\* ------------------------------------------------------ the print mutex
\* pthread_mutex_unlock(&consoleLock) by thread t.  Unlocking a mutex the
\* caller does not hold is undefined for a default mutex: it is released
\* all the same, or the call has no effect.
UnlockOutcomes(t) ==
    IF consoleLock = t THEN {0} ELSE {0, consoleLock}

\* Mutant: DisplayLock without its test of isLocked.
DisplayLock_AlwaysLock(t) ==
    /\ Idle(t)
    /\ locks' = locks + 1
    /\ blk' = [blk EXCEPT ![t] = locks + 1]
    /\ pc' = [pc EXCEPT ![t] = "L150_lock"]
    /\ NoReturn
    /\ UNCHANGED <<cfgVars, isLocked, consoleLock, type, fd, color,
                   old_colorfulness, stream, acquired, eid, tty, exited, emits, out>>

\* DisplayLock, line 150: the test of isLocked.
DisplayLock(t) ==
    /\ Idle(t)
    /\ locks' = locks + 1
    /\ blk' = [blk EXCEPT ![t] = locks + 1]
    /\ pc' = [pc EXCEPT ![t] = IF isLocked = 0 THEN "L150_lock" ELSE "L151"]
    /\ NoReturn
    /\ UNCHANGED <<cfgVars, isLocked, consoleLock, type, fd, color,
                   old_colorfulness, stream, acquired, eid, tty, exited, emits, out>>

\* DisplayLock, line 150: pthread_mutex_lock blocks until the mutex is free.
DisplayLock_lock(t) ==
    /\ exited = "no" /\ pc[t] = "L150_lock"
    /\ consoleLock = 0
    /\ consoleLock' = t
    /\ pc' = [pc EXCEPT ![t] = "L151"]
    /\ UNCHANGED <<cfgVars, isLocked, locks, blk, type, fd, color,
                   old_colorfulness, stream, acquired, eid, tty, exited, emits,
                   ret, out>>

\* DisplayLock, lines 151-152.
DisplayLock_set(t) ==
    /\ exited = "no" /\ pc[t] = "L151"
    /\ isLocked' = 1
    /\ pc' = [pc EXCEPT ![t] = "idle"]
    /\ Return(0)
    /\ UNCHANGED <<cfgVars, consoleLock, locks, blk, type, fd, color,
                   old_colorfulness, stream, acquired, eid, tty, emits>>

\* DisplayUnlock, line 158: the test of isLocked.
DisplayUnlock(t) ==
    /\ Idle(t)
    /\ blk' = [blk EXCEPT ![t] = 0]
    /\ pc' = [pc EXCEPT ![t] = IF isLocked # 0 THEN "L158_unlock" ELSE "L159"]
    /\ NoReturn
    /\ UNCHANGED <<cfgVars, isLocked, consoleLock, locks, type, fd, color,
                   old_colorfulness, stream, acquired, eid, tty, exited, emits, out>>

\* DisplayUnlock, line 158: pthread_mutex_unlock.
DisplayUnlock_unlock(t) ==
    /\ exited = "no" /\ pc[t] = "L158_unlock"
    /\ consoleLock' \in UnlockOutcomes(t)
    /\ pc' = [pc EXCEPT ![t] = "L159"]
    /\ UNCHANGED <<cfgVars, isLocked, locks, blk, type, fd, color,
                   old_colorfulness, stream, acquired, eid, tty, exited, emits,
                   ret, out>>

\* DisplayUnlock, lines 159-160.
DisplayUnlock_clear(t) ==
    /\ exited = "no" /\ pc[t] = "L159"
    /\ isLocked' = 0
    /\ pc' = [pc EXCEPT ![t] = "idle"]
    /\ Return(0)
    /\ UNCHANGED <<cfgVars, consoleLock, locks, blk, type, fd, color,
                   old_colorfulness, stream, acquired, eid, tty, emits>>

\* ------------------------------------------------- the emission macros
\* A call of __Display(function, ty, f, col, format, ...): the parameters
\* are bound and control is at line 231.
Enter(t, op, ty, f, col) ==
    /\ emits' = emits + 1
    /\ eid' = [eid EXCEPT ![t] = emits + 1]
    /\ type' = [type EXCEPT ![t] = ty]
    /\ fd' = [fd EXCEPT ![t] = f]
    /\ color' = [color EXCEPT ![t] = col]
    /\ pc' = [pc EXCEPT ![t] = "L231"]
    /\ NoReturn
    /\ UNCHANGED <<cfgVars, lockVars, old_colorfulness, stream, acquired, tty,
                   exited, out>>

\* The macro's `if (verbose)` was false: nothing is called.
Skip(t, op, col) ==
    /\ NoReturn
    /\ UNCHANGED <<cfgVars, lockVars, thrVars, tty, exited, emits, out>>

\* Mutant: the macro without its test of verbose.
Display_NoVerboseTest(t) ==
    /\ Idle(t)
    /\ Enter(t, "Display", STANDARD, NULL, RESET)

Display(t) ==
    /\ Idle(t)
    /\ IF verbose # 0
       THEN Enter(t, "Display", STANDARD, NULL, RESET)
       ELSE Skip(t, "Display", RESET)

DisplayColor(t, col) ==
    /\ Idle(t)
    /\ IF verbose # 0
       THEN Enter(t, "DisplayColor", STANDARD, NULL, col)
       ELSE Skip(t, "DisplayColor", col)

DisplayWarning(t) ==
    /\ Idle(t)
    /\ Enter(t, "DisplayWarning", WARNING, NULL, BOLD_YELLOW)

DisplayError(t) ==
    /\ Idle(t)
    /\ Enter(t, "DisplayError", ERROR, NULL, BOLD_RED)

DisplayFile(t, f) ==
    /\ Idle(t)
    /\ Enter(t, "DisplayFile", CUSTOM, f, RESET)

\* ---------------------------------------------------------- __Display
At(t, l) == exited = "no" /\ pc[t] = l
Goto(t, l) == pc' = [pc EXCEPT ![t] = l]

\* dprint(stream, ...) by thread t: one fprintf of `text` to its stream;
\* a null stream ends the process.
dprint(t, text) ==
    IF stream[t] = NULL
    THEN out' = out /\ exited' = "crash"
    ELSE /\ out' = Append(out, [thr |-> t, eid |-> eid[t], blk |-> blk[t],
                                type |-> type[t], sink |-> stream[t],
                                text |-> text])
         /\ exited' = exited

\* Mutant: __Display locks whatever isLocked is.
Display_231_AlwaysLock(t) ==
    /\ At(t, "L231")
    /\ Goto(t, "L231_lock")
    /\ acquired' = [acquired EXCEPT ![t] = FALSE]
    /\ UNCHANGED <<cfgVars, lockVars, type, fd, color, old_colorfulness, stream,
                   eid, tty, exited, emits, ret, out>>

\* line 231: the test of isLocked.
Display_231(t) ==
    /\ At(t, "L231")
    /\ Goto(t, IF isLocked = 0 THEN "L231_lock" ELSE "L234")
    /\ acquired' = [acquired EXCEPT ![t] = FALSE]
    /\ UNCHANGED <<cfgVars, lockVars, type, fd, color, old_colorfulness, stream,
                   eid, tty, exited, emits, ret, out>>

\* line 231: pthread_mutex_lock blocks until the mutex is free.
Display_231_lock(t) ==
    /\ At(t, "L231_lock")
    /\ consoleLock = 0
    /\ consoleLock' = t
    /\ acquired' = [acquired EXCEPT ![t] = TRUE]
    /\ Goto(t, "L234")
    /\ UNCHANGED <<cfgVars, isLocked, locks, blk, type, fd, color,
                   old_colorfulness, stream, eid, tty, exited, emits, ret, out>>

\* line 234: int old_colorfulness = GetColorfulness();
Display_234(t) ==
    /\ At(t, "L234")
    /\ old_colorfulness' = [old_colorfulness EXCEPT ![t] = GetColorfulness]
    /\ Goto(t, "L235")
    /\ UNCHANGED <<cfgVars, lockVars, type, fd, color, stream, acquired, eid,
                   tty, exited, emits, ret, out>>

\* Mutant: either redirect flag suppresses, whatever the category.
Redirected_AnyFlag(ty) == stdoutToFile # 0 \/ stderrToFile # 0

\* lines 235-236: the condition under which colorfulness is forced off.
Redirected(ty) ==
    \/ stdoutToFile # 0 /\ ty = STANDARD
    \/ stderrToFile # 0 /\ (ty = WARNING \/ ty = ERROR)

\* lines 235-237.
Display_235(t) ==
    /\ At(t, "L235")
    /\ colorfulness' = IF Redirected(type[t]) THEN DISABLE ELSE colorfulness
    /\ Goto(t, "L241")
    /\ UNCHANGED <<verbose, file, autoNewline, showTrace, streams, stdoutToFile,
                   stderrToFile, lockVars, type, fd, color, old_colorfulness,
                   stream, acquired, eid, tty, exited, emits, ret, out>>

\* lines 240-244: the sink of this emission.
\* Mutant: the default streams, whatever SetStream bound.
Resolve_Default(ty, f) ==
    IF ty = CUSTOM THEN f ELSE IF ty = STANDARD THEN stdout ELSE stderr

\* Mutant: a Custom emission goes where Standard emissions go.
Resolve_IgnoresFd(ty, f) == GetStream(IF ty = CUSTOM THEN STANDARD ELSE ty)

Resolve(ty, f) == IF ty = CUSTOM THEN f ELSE GetStream(ty)

Display_241(t) ==
    /\ At(t, "L241")
    /\ stream' = [stream EXCEPT ![t] = Resolve(type[t], fd[t])]
    /\ Goto(t, "L255")
    /\ UNCHANGED <<cfgVars, lockVars, type, fd, color, old_colorfulness,
                   acquired, eid, tty, exited, emits, ret, out>>

\* Mutant: the header with its color code whatever colorfulness is.
Header_AlwaysColor(col) == <<col, "[time]", "[file]", "[function]">>

\* lines 255-261: what the header write holds.
Header(col) ==
    IF colorfulness # 0
    THEN <<col, "[time]", "[file]", "[function]">>
    ELSE <<"[time]", "[file]", "[function]">>

Display_255(t) ==
    /\ At(t, "L255")
    /\ IF showTrace # 0
       THEN dprint(t, Header(color[t]))
       ELSE out' = out /\ exited' = exited
    /\ Goto(t, "L263")
    /\ UNCHANGED <<cfgVars, lockVars, type, fd, color, old_colorfulness, stream,
                   acquired, eid, tty, emits, ret>>

\* lines 263-265: the category tag, <<>> when nothing is written.
\* Mutant: the separating space is written whatever showTrace is.
Tag_AlwaysSpace(ty) ==
    IF ty = ERROR THEN <<"[ERROR] ">>
    ELSE IF ty = WARNING THEN <<"[WARNING] ">>
    ELSE <<" ">>

Tag(ty) ==
    IF ty = ERROR THEN <<"[ERROR] ">>
    ELSE IF ty = WARNING THEN <<"[WARNING] ">>
    ELSE IF showTrace # 0 THEN <<" ">>
    ELSE <<>>

Display_263(t) ==
    /\ At(t, "L263")
    /\ IF Tag(type[t]) # <<>>
       THEN dprint(t, Tag(type[t]))
       ELSE out' = out /\ exited' = exited
    /\ Goto(t, "L271")
    /\ UNCHANGED <<cfgVars, lockVars, type, fd, color, old_colorfulness, stream,
                   acquired, eid, tty, emits, ret>>

\* lines 268-271: the rendered body.
Display_271(t) ==
    /\ At(t, "L271")
    /\ dprint(t, <<"body">>)
    /\ Goto(t, "L274")
    /\ UNCHANGED <<cfgVars, lockVars, type, fd, color, old_colorfulness, stream,
                   acquired, eid, tty, emits, ret>>

\* lines 274-275.
Display_274(t) ==
    /\ At(t, "L274")
    /\ IF colorfulness # 0
       THEN dprint(t, <<RESET>>)
       ELSE out' = out /\ exited' = exited
    /\ Goto(t, "L277")
    /\ UNCHANGED <<cfgVars, lockVars, type, fd, color, old_colorfulness, stream,
                   acquired, eid, tty, emits, ret>>

\* line 277.
Display_277(t) ==
    /\ At(t, "L277")
    /\ IF autoNewline # 0
       THEN dprint(t, <<"\n">>)
       ELSE out' = out /\ exited' = exited
    /\ Goto(t, "L279")
    /\ UNCHANGED <<cfgVars, lockVars, type, fd, color, old_colorfulness, stream,
                   acquired, eid, tty, emits, ret>>

\* line 279: SetColorfulness(old_colorfulness);
Display_279(t) ==
    /\ At(t, "L279")
    /\ IF ValidFlag(old_colorfulness[t])
       THEN colorfulness' = old_colorfulness[t]
            /\ out' = out /\ exited' = exited /\ ret' = ret
       ELSE colorfulness' = colorfulness
            /\ Fatal(t, "ERROR: Invalid colorfulness value.\n")
    /\ Goto(t, "L281")
    /\ UNCHANGED <<verbose, file, autoNewline, showTrace, streams, stdoutToFile,
                   stderrToFile, lockVars, type, fd, color, old_colorfulness,
                   stream, acquired, eid, tty, emits>>

\* The return of __Display: its parameters and locals are gone.
Leave(t) ==
    /\ pc' = [pc EXCEPT ![t] = "idle"]
    /\ type' = [type EXCEPT ![t] = STANDARD]
    /\ fd' = [fd EXCEPT ![t] = NULL]
    /\ color' = [color EXCEPT ![t] = RESET]
    /\ old_colorfulness' = [old_colorfulness EXCEPT ![t] = ENABLE]
    /\ stream' = [stream EXCEPT ![t] = NULL]
    /\ acquired' = [acquired EXCEPT ![t] = FALSE]
    /\ eid' = [eid EXCEPT ![t] = 0]

\* line 281: the test of isLocked; lines 283-284 when it is set.
Display_281(t) ==
    /\ At(t, "L281")
    /\ IF isLocked = 0
       THEN /\ Goto(t, "L281_unlock")
            /\ UNCHANGED <<type, fd, color, old_colorfulness, stream, acquired, eid>>
       ELSE Leave(t)
    /\ UNCHANGED <<cfgVars, lockVars, tty, exited, emits, ret, out>>

\* line 281: pthread_mutex_unlock; lines 283-284.
Display_281_unlock(t) ==
    /\ At(t, "L281_unlock")
    /\ consoleLock' \in UnlockOutcomes(t)
    /\ Leave(t)
    /\ UNCHANGED <<cfgVars, isLocked, locks, blk, tty, exited, emits, ret, out>>

\* Every step of __Display by thread t.
DisplaySteps(t) ==
    \/ Display_231(t)
    \/ Display_231_lock(t)
    \/ Display_234(t)
    \/ Display_235(t)
    \/ Display_241(t)
    \/ Display_255(t)
    \/ Display_263(t)
    \/ Display_271(t)
    \/ Display_274(t)
    \/ Display_277(t)
    \/ Display_279(t)
    \/ Display_281(t)
    \/ Display_281_unlock(t)

\* ------------------------------------------------------- specifications
SrcPath == <<"s", "/", "d">>

\* One thread configuring the library; nothing is printed.
ConfigNext ==
    \/ \E v \in FlagInputs : SetVerbose(Main, v)
    \/ \E c \in FlagInputs : SetColorfulness(Main, c)
    \/ \E a \in FlagInputs : SetAutoNewline(Main, a)
    \/ \E s \in FlagInputs : SetShowTrace(Main, s)
    \/ \E ty \in TypeInputs, s \in Sinks : SetStream(Main, ty, s)
    \/ \E argv \in Argvs : InitializeDisplay(Main, SrcPath, argv)

SpecConfig == Init /\ [][ConfigNext]_vars

\* argument lists of the runs that print
StartArgvs == {<<>>, <<"-s">>, <<"--no-color">>}

\* One thread setting the four flags and printing.
EmitNext ==
    \/ \E argv \in StartArgvs : InitializeDisplay(Main, SrcPath, argv)
    \/ \E v \in FlagInputs : SetVerbose(Main, v)
    \/ \E c \in FlagInputs : SetColorfulness(Main, c)
    \/ \E a \in FlagInputs : SetAutoNewline(Main, a)
    \/ \E s \in FlagInputs : SetShowTrace(Main, s)
    \/ emits < MaxEmits /\ Display(Main)
    \/ emits < MaxEmits /\ DisplayColor(Main, GREEN)
    \/ emits < MaxEmits /\ DisplayWarning(Main)
    \/ emits < MaxEmits /\ DisplayError(Main)
    \/ emits < MaxEmits /\ DisplayFile(Main, logfd)
    \/ DisplaySteps(Main)

SpecEmit == Init /\ [][EmitNext]_vars

\* One thread binding the category streams and printing, one entry point
\* for each category.
StreamArgvs == {<<>>, <<"--silent">>, <<"--no-color">>}

StreamNext ==
    \/ \E argv \in StreamArgvs : InitializeDisplay(Main, SrcPath, argv)
    \/ \E ty \in TypeInputs, s \in Sinks : SetStream(Main, ty, s)
    \/ emits < MaxEmits /\ Display(Main)
    \/ emits < MaxEmits /\ DisplayWarning(Main)
    \/ emits < MaxEmits /\ DisplayError(Main)
    \/ emits < MaxEmits /\ DisplayFile(Main, logfd)
    \/ DisplaySteps(Main)

SpecStream == Init /\ [][StreamNext]_vars

\* Several threads printing and taking the print lock by hand, in a
\* process started as `./process > file`: main() initializes the library,
\* then the threads run, each a sequence of emissions and of blocks
\* DisplayLock ... emissions ... DisplayUnlock.
InitThreads == Init /\ tty = [s \in {stdout, stderr} |-> s = stderr]

Initialized == streams[STANDARD] # NULL

ThreadsNext ==
    \/ ~Initialized /\ InitializeDisplay(Main, SrcPath, <<>>)
    \/ \E t \in Threads :
        \/ Initialized /\ emits < MaxThreadEmits /\ Display(t)
        \/ Initialized /\ emits < MaxThreadEmits /\ DisplayError(t)
        \/ DisplaySteps(t)
        \/ Initialized /\ locks < MaxLocks /\ blk[t] = 0 /\ DisplayLock(t)
        \/ DisplayLock_lock(t)
        \/ DisplayLock_set(t)
        \/ blk[t] # 0 /\ DisplayUnlock(t)
        \/ DisplayUnlock_unlock(t)
        \/ DisplayUnlock_clear(t)

SpecThreads == InitThreads /\ [][ThreadsNext]_vars

\* One thread taking and releasing the print lock by hand, in any order,
\* and printing.
LockNext ==
    \/ ~Initialized /\ InitializeDisplay(Main, SrcPath, <<>>)
    \/ Initialized /\ locks < MaxLocks /\ DisplayLock(Main)
    \/ DisplayLock_lock(Main)
    \/ DisplayLock_set(Main)
    \/ Initialized /\ DisplayUnlock(Main)
    \/ DisplayUnlock_unlock(Main)
    \/ DisplayUnlock_clear(Main)
    \/ Initialized /\ emits < MaxEmits /\ Display(Main)
    \/ DisplaySteps(Main)

SpecLock == Init /\ [][LockNext]_vars

\* The main thread taking and releasing the print lock by hand, in any
\* order, while it and one other thread print.
Other == CHOOSE t \in Threads : t # Main

HoldNext ==
    \/ ~Initialized /\ InitializeDisplay(Main, SrcPath, <<>>)
    \/ Initialized /\ locks < MaxLocks /\ DisplayLock(Main)
    \/ DisplayLock_lock(Main)
    \/ DisplayLock_set(Main)
    \/ Initialized /\ DisplayUnlock(Main)
    \/ DisplayUnlock_unlock(Main)
    \/ DisplayUnlock_clear(Main)
    \/ \E t \in {Main, Other} : Initialized /\ emits < MaxEmits /\ Display(t)
    \/ \E t \in {Main, Other} : DisplaySteps(t)

SpecHold == InitThreads /\ [][HoldNext]_vars

\* labels handed to SetFilename besides the null pointer: the empty string,
\* strings up to and past the size of the buffer
LabelInputs == {<<>>, <<"m">>, Rep(FileSize - 1, "m"), Rep(FileSize, "m")}

\* One thread setting the label, by initialization and by SetFilename.
LabelNext ==
    \/ \E p \in PathInputs, argv \in StartArgvs : InitializeDisplay(Main, p, argv)
    \/ \E l \in LabelInputs : SetFilename(Main, l)
    \/ SetFilename(Main, NULL)

SpecLabel == Init /\ [][LabelNext]_vars

\* ------------------------------------------------------------ properties
NoAnsi(text) == \A i \in 1 .. Len(text) : text[i] \notin Ansi
Wrote        == Len(out') = Len(out) + 1
LastWrite    == out'[Len(out')]
\* __Display has made all its writes and is about to return.
Written(t)   == pc[t] \in {"L279", "L281", "L281_unlock"}
WritesOf(t)  == {i \in 1 .. Len(out) : out[i].eid = eid[t]}

\* C1: the writes of one emission are one contiguous block of the output:
\* between two writes of a thread's emission there is no write of another
\* thread.
C1_EmissionContiguous ==
    \A i, k \in 1 .. Len(out) :
        (i < k /\ out[i].eid = out[k].eid)
            => \A j \in i .. k : out[j].thr = out[i].thr

\* C2: between the first and the last write of a DisplayLock ...
\* DisplayUnlock block of one thread there is no write of another thread.
C2_BlockContiguous ==
    \A i, k \in 1 .. Len(out) :
        (i < k /\ out[i].blk # 0 /\ out[i].blk = out[k].blk)
            => \A j \in i .. k : out[j].thr = out[i].thr

\* C4: once every emission has returned, colorfulness has the value it had
\* before the emissions started (ENABLE, set by initialization: no thread of
\* this specification calls SetColorfulness).
C4_ColorfulnessRestored ==
    (Initialized /\ \A t \in Threads : pc[t] = "idle")
        => GetColorfulness = ENABLE

Flags    == <<verbose, colorfulness, autoNewline, showTrace>>
Trace    == {"[time]", "[file]", "[function]"}
NoTrace(text) == \A i \in 1 .. Len(text) : text[i] \notin Trace
Categories == {STANDARD, WARNING, ERROR}

\* C3: a Display or DisplayColor call made with verbosity disabled returns
\* at once, starts no emission and writes nothing, and no Standard write
\* ever happens while verbosity is disabled; a DisplayWarning or
\* DisplayError call enters __Display whatever verbose is, as Display and
\* DisplayColor do with verbosity enabled; and every emission that was
\* entered has written its body to its sink when it returns.
C3_VerbosityGate ==
    /\ [](\A t \in Threads : Written(t) =>
            \E i \in WritesOf(t) :
                /\ out[i].text = <<"body">>
                /\ out[i].type = type[t]
                /\ out[i].sink = stream[t])
    /\ [][(Wrote /\ LastWrite.type = STANDARD) => verbose = ENABLE]_vars
    /\ [][\A t \in Threads :
            /\ (DisplayWarning(t) \/ DisplayError(t)) => pc'[t] = "L231"
            /\ (Display(t) \/ DisplayColor(t, GREEN)) =>
                    IF verbose = DISABLE
                    THEN UNCHANGED <<out, pc, emits>>
                    ELSE pc'[t] = "L231"]_vars

\* C3 witness: with verbosity disabled a Warning or Error emission has
\* made its writes.
C3_Witness ==
    \E t \in Threads :
        /\ verbose = DISABLE
        /\ Written(t)
        /\ type[t] \in {WARNING, ERROR}
        /\ \E i \in WritesOf(t) : out[i].text = <<"body">>

\* C5: no write of a Standard, Warning or Error emission to stdout or
\* stderr holds an ANSI escape sequence once that stream was recorded as
\* redirected.
C5_NoAnsiToRedirected ==
    [][(Wrote /\ LastWrite.type \in Categories
              /\ \/ LastWrite.sink = stdout /\ stdoutToFile # 0
                 \/ LastWrite.sink = stderr /\ stderrToFile # 0)
          => NoAnsi(LastWrite.text)]_vars

\* C6: an emission made with colorfulness disabled has written no ANSI
\* escape sequence when it returns.
C6_NoAnsiWhenColorless ==
    \A t \in Threads :
        (Written(t) /\ old_colorfulness[t] = DISABLE)
            => \A i \in WritesOf(t) : NoAnsi(out[i].text)

\* C6 witness: a DisplayColor(GREEN) emission with colorfulness disabled
\* and the trace enabled has written its header, body and newline.
C6_Witness ==
    \E t \in Threads :
        /\ Written(t) /\ old_colorfulness[t] = DISABLE
        /\ color[t] = GREEN /\ showTrace = ENABLE /\ autoNewline = ENABLE
        /\ {out[i].text : i \in WritesOf(t)} =
              {<<"[time]", "[file]", "[function]">>, <<" ">>, <<"body">>, <<"\n">>}

\* C7: an emission made with the trace disabled has written no header and
\* no ANSI escape sequence (color code or reset) when it returns.
C7_NoColorWithoutTrace ==
    \A t \in Threads :
        (Written(t) /\ showTrace = DISABLE)
            => \A i \in WritesOf(t) :
                  NoTrace(out[i].text) /\ NoAnsi(out[i].text)

\* C8: SetStream(c, s) with c a category returns 0, binds c to s (GetStream
\* returns s) and leaves the other two bindings alone; a binding changes
\* only by SetStream of its category or by initialization; and every write
\* of an emission of category c goes to the sink bound to c.
C8_StreamRoundTrip ==
    /\ [][\A c \in Categories, s \in Sinks :
            SetStream(Main, c, s) =>
                /\ ret' = 0
                /\ GetStream(c)' = s
                /\ \A d \in Categories \ {c} : GetStream(d)' = GetStream(d)]_vars
    /\ [][\A c \in Categories :
            GetStream(c)' # GetStream(c) =>
                \/ \E s \in Sinks : SetStream(Main, c, s)
                \/ \E argv \in StreamArgvs :
                        InitializeDisplay(Main, SrcPath, argv)]_vars
    /\ [][(Wrote /\ LastWrite.type \in Categories)
            => LastWrite.sink = GetStream(LastWrite.type)]_vars

\* C8 witness: a Standard emission has written to the caller's file, bound
\* to STANDARD in place of stdout.
C8_Witness ==
    \E t \in Threads :
        /\ Written(t) /\ type[t] = STANDARD
        /\ GetStream(STANDARD) = logfd
        /\ WritesOf(t) # {}
        /\ \A i \in WritesOf(t) : out[i].sink = logfd

\* C9: each flag setter, called with DISABLE or ENABLE, returns 0, makes
\* its getter return that value and leaves the other three flags alone.
C9_SetterGetter ==
    [][\A v \in {DISABLE, ENABLE} :
        /\ SetVerbose(Main, v) =>
              /\ ret' = 0 /\ GetVerbose' = v
              /\ UNCHANGED <<colorfulness, autoNewline, showTrace>>
        /\ SetColorfulness(Main, v) =>
              /\ ret' = 0 /\ GetColorfulness' = v
              /\ UNCHANGED <<verbose, autoNewline, showTrace>>
        /\ SetAutoNewline(Main, v) =>
              /\ ret' = 0 /\ GetAutoNewline' = v
              /\ UNCHANGED <<verbose, colorfulness, showTrace>>
        /\ SetShowTrace(Main, v) =>
              /\ ret' = 0 /\ GetShowTrace' = v
              /\ UNCHANGED <<verbose, colorfulness, autoNewline>>]_vars

\* C9 witness: the four setters have each stored DISABLE.
C9_Witness ==
    /\ exited = "no" /\ ret = 0
    /\ GetVerbose = DISABLE /\ GetColorfulness = DISABLE
    /\ GetAutoNewline = DISABLE /\ GetShowTrace = DISABLE

\* C10: a flag setter called with a value other than DISABLE or ENABLE
\* ends the process with its diagnostic and changes no flag; no flag ever
\* holds a value other than DISABLE or ENABLE.
C10_InvalidFlagExits ==
    /\ [][\A v \in FlagInputs \ {DISABLE, ENABLE} :
            (\/ SetVerbose(Main, v) \/ SetColorfulness(Main, v)
             \/ SetAutoNewline(Main, v) \/ SetShowTrace(Main, v))
                => exited' = "exit1" /\ UNCHANGED Flags]_vars
    /\ [](\A i \in 1 .. 4 : Flags[i] \in {DISABLE, ENABLE})

\* C10 witness: SetShowTrace ended the process and showTrace still holds
\* the DISABLE an earlier call stored.
C10_Witness ==
    /\ exited = "exit1"
    /\ GetShowTrace = DISABLE
    /\ out # <<>>
    /\ out[Len(out)].text = <<"ERROR: Invalid show trace value.\n">>

\* C11: SetStream called with CUSTOM or another value outside STANDARD ..
\* ERROR writes its diagnostic to stderr, ends the process and leaves the
\* three bindings as they were; GetStream of such a value is NULL in every
\* state, and reading it ends nothing.
C11_StreamTypeChecked ==
    /\ [][\A ty \in TypeInputs \ Categories, s \in Sinks :
            SetStream(Main, ty, s) =>
                /\ exited = "no" /\ exited' = "exit1"
                /\ UNCHANGED streams
                /\ Wrote /\ LastWrite.sink = stderr
                /\ LastWrite.text =
                      <<"ERROR: Invalid stream type. See PrintType enum.">>]_vars
    /\ [](\A ty \in TypeInputs \ Categories : GetStream(ty) = NULL)

\* C11 witness: SetStream ended the process on a bad stream type and the
\* bindings made before it are still in place.
C11_Witness ==
    /\ exited = "exit1"
    /\ out # <<>>
    /\ out[Len(out)].text = <<"ERROR: Invalid stream type. See PrintType enum.">>
    /\ GetStream(STANDARD) = stdout
    /\ GetStream(WARNING) = logfd
    /\ GetStream(ERROR) = stderr
    /\ GetStream(CUSTOM) = NULL

\* C12: a DisplayLock call that follows another DisplayLock call of the same
\* thread, no DisplayUnlock between them (blk is still set), finds the flag
\* set and goes past the acquisition; the thread never waits for a mutex it
\* holds itself; on return the flag is set and the mutex held once by the
\* caller, however many calls were made; the DisplayUnlock that follows
\* releases the mutex and clears the flag.
C12_RelockIdempotent ==
    /\ [][(DisplayLock(Main) /\ blk[Main] # 0)
            => isLocked = 1 /\ pc'[Main] = "L151"]_vars
    /\ [][DisplayLock_set(Main) => isLocked' = 1 /\ UNCHANGED consoleLock]_vars
    /\ [](pc[Main] = "L150_lock" => consoleLock = 0)
    /\ []((blk[Main] # 0 /\ pc[Main] = "idle")
            => isLocked = 1 /\ consoleLock = Main)
    /\ [][DisplayUnlock_unlock(Main) => consoleLock' = 0]_vars
    /\ []((blk[Main] = 0 /\ pc[Main] = "idle")
            => isLocked = 0 /\ consoleLock = 0)

\* C12 witness: the second DisplayLock call in a row is past its test
\* without an acquisition, the mutex held from the first call.
C12_Witness ==
    /\ pc[Main] = "L151" /\ locks = 2 /\ blk[Main] = 2
    /\ isLocked = 1 /\ consoleLock = Main

\* C13: a DisplayFile call enters __Display whatever verbose is, with
\* category CUSTOM and the caller's sink; every write of a Custom emission
\* goes to the sink passed in the call; the emission has written its body
\* when it returns; and no step of a Custom emission changes a binding of
\* STANDARD, WARNING or ERROR.
C13_DirectSink ==
    /\ [][\A t \in Threads :
            DisplayFile(t, logfd) =>
                pc'[t] = "L231" /\ type'[t] = CUSTOM /\ fd'[t] = logfd]_vars
    /\ [][(Wrote /\ LastWrite.type = CUSTOM)
            => LastWrite.sink = fd[LastWrite.thr]]_vars
    /\ [](\A t \in Threads :
            (Written(t) /\ type[t] = CUSTOM) =>
                /\ \E i \in WritesOf(t) : out[i].text = <<"body">>
                /\ \A i \in WritesOf(t) : out[i].sink = fd[t])
    /\ [][\A t \in Threads :
            (pc[t] # "idle" /\ type[t] = CUSTOM /\ pc'[t] # pc[t])
                => UNCHANGED streams]_vars

\* C13 witness: with verbosity disabled and STANDARD rebound to stderr, a
\* DisplayFile emission has made its writes, all to the caller's file,
\* which no category is bound to.
C13_Witness ==
    \E t \in Threads :
        /\ verbose = DISABLE
        /\ Written(t) /\ type[t] = CUSTOM /\ fd[t] = logfd
        /\ GetStream(STANDARD) = stderr
        /\ \A c \in Categories : GetStream(c) # logfd
        /\ \E i \in WritesOf(t) : out[i].text = <<"body">>
        /\ \A i \in WritesOf(t) : out[i].sink = logfd

\* C14: initialization with any argument list ends with the process
\* running, verbose DISABLE exactly when -s or --silent is among the
\* arguments, colorfulness DISABLE exactly when -n or --no-color is, STANDARD
\* bound to stdout and WARNING and ERROR to stderr, whatever these were
\* before; any other argument changes nothing and is no error.
C14_InitResets ==
    [][\A argv \in Argvs :
        InitializeDisplay(Main, SrcPath, argv) =>
            /\ exited' = "no" /\ ret' = 0
            /\ GetVerbose' =
                  IF \E i \in 1 .. Len(argv) : argv[i] \in {"-s", "--silent"}
                  THEN DISABLE ELSE ENABLE
            /\ GetColorfulness' =
                  IF \E i \in 1 .. Len(argv) : argv[i] \in {"-n", "--no-color"}
                  THEN DISABLE ELSE ENABLE
            /\ GetStream(STANDARD)' = stdout
            /\ GetStream(WARNING)' = stderr
            /\ GetStream(ERROR)' = stderr
            /\ UNCHANGED <<autoNewline, showTrace>>]_vars

\* C15: SetFilename called with no label or with the empty label returns a
\* value other than 0, the process goes on, and the label and every other
\* configuration field are as before.
C15_InvalidLabelRejected ==
    [][(SetFilename(Main, NULL) \/ SetFilename(Main, <<>>)) =>
            /\ ret' # 0
            /\ exited' = "no"
            /\ GetFilename' = GetFilename
            /\ UNCHANGED cfgVars]_vars

\* What emission e has written, write after write, as one sequence.
RECURSIVE TextOf(_, _)
TextOf(e, i) ==
    IF i > Len(out) THEN <<>>
    ELSE (IF out[i].eid = e THEN out[i].text ELSE <<>>) \o TextOf(e, i + 1)

\* The sequence C16 gives for an emission of category ty and color code
\* col under trace flag tr, effective colorfulness cf and auto-newline nl.
Expected(ty, col, tr, cf, nl) ==
       (IF tr # 0 /\ cf # 0 THEN <<col>> ELSE <<>>)
    \o (IF tr # 0 THEN <<"[time]", "[file]", "[function]">> ELSE <<>>)
    \o (IF ty = ERROR THEN <<"[ERROR] ">>
        ELSE IF ty = WARNING THEN <<"[WARNING] ">>
        ELSE IF tr # 0 THEN <<" ">> ELSE <<>>)
    \o <<"body">>
    \o (IF cf # 0 THEN <<RESET>> ELSE <<>>)
    \o (IF nl # 0 THEN <<"\n">> ELSE <<>>)

C17_ReleaseIffAcquired ==
    /\ [](\A t \in Threads : pc[t] = "L281_unlock" => acquired[t])
    /\ [][\A t \in Threads :
            (Display_281(t) /\ pc'[t] = "idle") => ~acquired[t]]_vars

\* C18: DisplayUnlock called with the flag set unlocks the mutex, which is
\* free afterwards, and then clears the flag; called with the flag clear it
\* goes past the unlock, leaving the mutex (also one an emission of another
\* thread holds), the flag and the configuration as they are; no step of
\* the call touches the configuration.
C18_UnlockFrame ==
    /\ [][\A t \in Threads :
            DisplayUnlock(t) =>
                /\ pc'[t] = IF isLocked # 0 THEN "L158_unlock" ELSE "L159"
                /\ UNCHANGED <<isLocked, consoleLock, cfgVars>>]_vars
    /\ [][\A t \in Threads :
            DisplayUnlock_unlock(t) =>
                consoleLock' = 0 /\ UNCHANGED <<isLocked, cfgVars>>]_vars
    /\ [][\A t \in Threads :
            DisplayUnlock_clear(t) =>
                isLocked' = 0 /\ UNCHANGED <<consoleLock, cfgVars>>]_vars

\* C19: while the flag is set, an emission passes line 231 without an
\* acquisition and line 281 without an unlock, the mutex untouched, and
\* every step between the two can be taken at once; the process does not
\* end; an emission goes to the acquisition only when it reads the flag
\* clear, and the flag is cleared by DisplayUnlock alone.
C19_HeldSkipsLocking ==
    /\ [][\A t \in Threads :
            Display_231(t) =>
                IF isLocked # 0
                THEN pc'[t] = "L234" /\ ~acquired'[t] /\ UNCHANGED consoleLock
                ELSE pc'[t] = "L231_lock"]_vars
    /\ [][\A t \in Threads :
            (Display_281(t) /\ isLocked # 0) =>
                pc'[t] = "idle" /\ UNCHANGED consoleLock]_vars
    /\ [](\A t \in Threads :
            (isLocked # 0 /\ pc[t] \notin {"idle", "L231_lock"}
                /\ pc[t] \notin {"L150_lock", "L151", "L158_unlock", "L159"})
                => ENABLED DisplaySteps(t))
    /\ [](Initialized => exited = "no")
    /\ [][(isLocked # 0 /\ isLocked' = 0) => DisplayUnlock_clear(Main)]_vars

\* C19 witness: with the lock held by hand by the main thread, an emission
\* of the other thread has run from line 231 to line 281 without the mutex
\* and has made its writes.
C19_Witness ==
    /\ isLocked = 1 /\ consoleLock = Main /\ pc[Main] = "idle" /\ blk[Main] # 0
    /\ pc[Other] = "L281" /\ ~acquired[Other]
    /\ \E i \in WritesOf(Other) : out[i].text = <<"body">>

\* The suppression condition as C20 words it.
Suppressed(ty) ==
    \/ ty = STANDARD /\ stdoutToFile # 0
    \/ ty \in {WARNING, ERROR} /\ stderrToFile # 0

IsPrefix(s, l) == Len(s) <= Len(l) /\ \A i \in 1 .. Len(s) : s[i] = l[i]

\* C21: in every state the buffer holds a terminated string of at most
\* FileSize - 1 characters, its last cell the terminator; SetFilename with
\* a label of any length returns 0, the process goes on, and the stored
\* label is the label itself if that fits and else its first FileSize - 1
\* characters; initialization with a path of any length returns 0 and
\* stores a beginning of the path's basename, all of it if it is short;
\* SetFilename without a label leaves the stored label as it is.
C21_LabelBounded ==
    /\ [](/\ Len(file) = FileSize
           /\ file[FileSize] = NUL
           /\ Len(GetFilename) <= FileSize - 1)
    /\ [][\A l \in LabelInputs :
            SetFilename(Main, l) =>
                /\ ret' = 0 /\ exited' = "no"
                /\ IsPrefix(GetFilename', l)
                /\ Len(GetFilename') =
                      IF Len(l) <= FileSize - 1 THEN Len(l) ELSE FileSize - 1]_vars
    /\ [][\A p \in PathInputs, argv \in StartArgvs :
            InitializeDisplay(Main, p, argv) =>
                /\ ret' = 0 /\ exited' = "no"
                /\ IsPrefix(GetFilename', Basename(p))
                /\ Len(Basename(p)) < FileSize - 1
                        => GetFilename' = Basename(p)]_vars
    /\ [][SetFilename(Main, NULL) => GetFilename' = GetFilename]_vars

\* C21 witness: SetFilename has stored a label cut to FileSize - 1
\* characters over the label initialization left, the terminator in the
\* last cell.
C21_Witness ==
    /\ GetFilename = Rep(FileSize - 1, "m")
    /\ file[FileSize] = NUL
    /\ Initialized /\ ret = 0 /\ exited = "no"

\* the places where a thread waits in pthread_mutex_lock
LockWaits == {"L231_lock", "L150_lock"}

\* C22: no thread is ever blocked for good on the print mutex: no thread
\* waits in pthread_mutex_lock for a mutex it holds itself; when every
\* thread is between calls and the manual-hold flag is false the mutex is
\* free; and whenever some call has not returned, some thread can take a
\* step.
C22_NoThreadBlockedForever ==
    /\ \A t \in Threads : pc[t] \in LockWaits => consoleLock # t
    /\ ((\A t \in Threads : pc[t] = "idle") /\ isLocked = 0) => consoleLock = 0
    /\ (exited = "no" /\ \E t \in Threads : pc[t] # "idle") => ENABLED ThreadsNext
====
